---- MODULE Spec2Model ----
(***************************************************************************)
(* Model of omnixai.explainers.tabular.agnostic.shap.ShapTabular:          *)
(* construction (__init__) and explain.  Python values are modelled as     *)
(* follows: a Python list is a sequence (index i of Python is index i+1    *)
(* here, except for class labels, which stay 0-based because they are      *)
(* data), None is a separate flag or the string "None", a raised exception *)
(* is the name of its type in an "error" field.  Probabilities and scores  *)
(* are integers in tenths.                                                 *)
(***************************************************************************)
EXTENDS Integers, Sequences, FiniteSets, TLC

VARIABLES phase, ctor, self, call

vars == <<phase, ctor, self, call>>

\* ------------------------------------------------------------------ bounds

\* Largest batch of instances handed to explain.
MaxBatch == 2

\* ------------------------------------------------------------ the data used

\* The feature columns of the training data, in schema order.
FeatureColumns == <<"f0", "f1", "f2">>

\* The name of the target column, when the training data has one.
TargetName == "label"

NumFeatures == Len(FeatureColumns)

FeatureIdx == 1..NumFeatures

\* Classes of the classification predictor (Python list indices).
Classes == {0, 1}

\* Raw rows the caller explains: f1 is categorical (raw codes 10, 20).
Row(a, b, c) == [f0 |-> a, f1 |-> b, f2 |-> c]

Pool == {Row(1, 10, 0), Row(2, 20, 1)}

\* The training data (without its target values): the background source.
TrainingRows == <<Row(1, 10, 0), Row(1, 20, 2)>>

\* ----------------------------------------------------------- pure helpers

RECURSIVE SumSeq(_)
SumSeq(s) == IF s = <<>> THEN 0 ELSE Head(s) + SumSeq(Tail(s))

Abs(x) == IF x < 0 THEN -x ELSE x

Clamp(x, lo, hi) == IF x < lo THEN lo ELSE IF x > hi THEN hi ELSE x

\* s[idx[1]], s[idx[2]], ...: numpy fancy indexing / a list comprehension.
Take(s, idx) == [k \in 1..Len(idx) |-> s[idx[k]]]

\* ------------------------------------------- collaborators outside shap.py

\* Tabular.remove_target_column: the row without its target value.
RemoveTargetColumn(row) == [c \in DOMAIN row \ {TargetName} |-> row[c]]

\* TabularTransform.transform on one row: the categorical column f1 is
\* ordinal-encoded (10 -> 0, 20 -> 1), continuous columns pass through; the
\* result is a numpy row indexed by feature position.
Encode(v) == (v \div 10) - 1

Transform(row) ==
    [k \in FeatureIdx |->
        IF FeatureColumns[k] = "f1" THEN Encode(row[FeatureColumns[k]])
        ELSE row[FeatureColumns[k]]]

\* The outputs the prediction function has per instance: one per class, or
\* the single regression value (kept under index 0).
Outputs(mode) == IF mode = "classification" THEN Classes ELSE {0}

\* predict_function of the caller, classification: class probabilities in
\* tenths, summing to 10.
PredictProba(x) ==
    LET p1 == Clamp(5 + 3 * (x[1] - 2 * x[2]), 1, 9)
    IN [c \in Classes |-> IF c = 1 THEN p1 ELSE 10 - p1]

\* predict_function of the caller, regression: one value per instance.
PredictValue(x) == [c \in {0} |-> x[1] + 2 * x[2] + x[3]]

\* self.predict_fn on one transformed instance.
predict_fn(mode, x) ==
    IF mode = "classification" THEN PredictProba(x) ELSE PredictValue(x)

\* logit(p) = ln(p / (1 - p)) for p in tenths, in tenths (rounded).
LogitTable == <<-22, -14, -8, -4, 0, 4, 8, 14, 22>>

Logit(p) == LogitTable[p]

\* LinkOf with the identity link in both modes.
LinkOf_identity(mode) == "identity"

\* The link shap.KernelExplainer is given at line 60.
LinkOf(mode) == IF mode = "classification" THEN "logit" ELSE "identity"

ApplyLink(link, v) == IF link = "logit" THEN Logit(v) ELSE v

\* shap.KernelExplainer's expected value of output c over the background
\* rows (the mean of the model output; integer mean, in tenths).
ExpectedValue(mode, data, c) ==
    SumSeq([j \in 1..Len(data) |-> predict_fn(mode, data[j])[c]]) \div Len(data)

\* The gap KernelExplainer distributes over the features of instance x for
\* output c: link(f(x)) - link(E[f(background)]).
LinkGap(mode, link, data, x, c) ==
    ApplyLink(link, predict_fn(mode, x)[c])
        - ApplyLink(link, ExpectedValue(mode, data, c))

\* The free part of an attribution vector: the scores of all features but
\* the last, which the efficiency constraint then fixes.
Profiles == {<<0, 0>>, <<3, -3>>}

Attribution(gap, profile) ==
    [k \in FeatureIdx |->
        IF k < NumFeatures THEN profile[k] ELSE gap - SumSeq(profile)]

\* shap.KernelExplainer.shap_values(instances): every array the engine may
\* return.  One score vector per output and instance, each summing to the
\* link gap of that output and instance (the constraint KernelExplainer
\* solves under); the free part is drawn per instance.  In regression the
\* single array is kept under output 0.
ShapValues(mode, link, data, instances) ==
    { [c \in Outputs(mode) |-> [i \in 1..Len(instances) |->
          Attribution(LinkGap(mode, link, data, instances[i], c), pick[i])]] :
      pick \in [1..Len(instances) -> Profiles] }

\* ArgMax taking the last maximal index on a tie.
ArgMax_lastOnTie(scores) ==
    CHOOSE c \in DOMAIN scores :
        /\ \A d \in DOMAIN scores : scores[d] <= scores[c]
        /\ \A d \in DOMAIN scores : scores[d] = scores[c] => d <= c

\* np.argmax over one row of class scores: the first maximal index.
ArgMax(scores) ==
    CHOOSE c \in DOMAIN scores :
        /\ \A d \in DOMAIN scores : scores[d] <= scores[c]
        /\ \A d \in DOMAIN scores : scores[d] = scores[c] => c <= d

\* FeatureImportance.add with sort=True sorts the (name, value, score)
\* triples by descending absolute score; sorted(..., reverse=True) keeps
\* triples of equal key in their original order.  InsertTriple puts t after
\* every triple whose absolute score is at least its own.
RECURSIVE InsertTriple(_, _)
InsertTriple(sorted, t) ==
    IF sorted = <<>> THEN <<t>>
    ELSE IF Abs(Head(sorted)[3]) >= Abs(t[3])
         THEN <<Head(sorted)>> \o InsertTriple(Tail(sorted), t)
         ELSE <<t>> \o sorted

RECURSIVE SortTriples(_)
SortTriples(ts) ==
    IF ts = <<>> THEN <<>>
    ELSE InsertTriple(SortTriples(SubSeq(ts, 1, Len(ts) - 1)), ts[Len(ts)])

\* FeatureImportance.add: the record appended for one call of add.  The
\* target label is kept only in classification mode.
AddRecord(mode, args) ==
    LET zipped == [k \in 1..Len(args.feature_names) |->
                      <<args.feature_names[k], args.feature_values[k],
                        args.importance_scores[k]>>]
        scores == IF args.sort THEN SortTriples(zipped) ELSE zipped
    IN [instance     |-> args.instance,
        features     |-> [k \in 1..Len(scores) |-> scores[k][1]],
        values       |-> [k \in 1..Len(scores) |-> scores[k][2]],
        scores       |-> [k \in 1..Len(scores) |-> scores[k][3]],
        target_label |-> IF mode = "classification" THEN args.target_label
                         ELSE <<>>]

\* TabularExplainer.__init__ (the base class): rejects an unsupported mode,
\* then records the mode, the target column ("None" when the training data
\* has none), the feature columns and the transformed training data.
SupportedModes == {"classification", "regression"}

BaseInit(mode, hasTarget) ==
    IF mode \notin SupportedModes
    THEN [error |-> "AssertionError", mode |-> mode, target_column |-> "None",
          feature_columns |-> <<>>, data |-> <<>>]
    ELSE [error |-> "none", mode |-> mode,
          target_column |-> IF hasTarget THEN TargetName ELSE "None",
          feature_columns |-> FeatureColumns,
          data |-> [j \in 1..Len(TrainingRows) |-> Transform(TrainingRows[j])]]

\* -------------------------------------------------- ShapTabular.__init__

\* Line 50: the set of ignored features; an omitted argument (None) gives
\* the empty set.
IgnoredSet(ignored_features) ==
    IF ignored_features.isNone THEN {} ELSE ignored_features.names

\* TargetCheck with the membership test left out.
TargetCheck_skipped(target_column, ignored_features) == "none"

\* Lines 51-53: the target column must not be ignored.  The membership test
\* reads the argument, not self.ignored_features: `x not in None` raises
\* TypeError.
TargetCheck(target_column, ignored_features) ==
    IF target_column = "None" THEN "none"
    ELSE IF ignored_features.isNone THEN "TypeError"
    ELSE IF target_column \in ignored_features.names THEN "AssertionError"
    ELSE "none"

\* shap.sample(data, nsamples): data itself when nsamples covers it,
\* otherwise nsamples of its rows drawn without replacement.
RECURSIVE SubSeqsOfLen(_, _)
SubSeqsOfLen(s, n) ==
    IF n = 0 THEN {<<>>}
    ELSE IF Len(s) < n THEN {}
    ELSE {<<Head(s)>> \o t : t \in SubSeqsOfLen(Tail(s), n - 1)}
         \cup SubSeqsOfLen(Tail(s), n)

ShapSample(data, nsamples) ==
    IF nsamples >= Len(data) THEN {data} ELSE SubSeqsOfLen(data, nsamples)

\* Lines 55-58: the background data handed to KernelExplainer.
BackgroundChoices(data, kwargs) ==
    IF kwargs.has_nsamples THEN ShapSample(data, kwargs.nsamples) ELSE {data}

\* The values construction is tried with.
ModeArgs == SupportedModes \cup {"ranking"}

IgnoredArgs ==
    {[isNone |-> TRUE, names |-> {}]}
    \cup {[isNone |-> FALSE, names |-> n] :
            n \in {{}, {"f1"}, {"f0", "f2"}, {TargetName}}}

KwargsArgs == {[has_nsamples |-> FALSE, nsamples |-> 0],
               [has_nsamples |-> TRUE, nsamples |-> 1]}

NoSelf == [mode |-> "None", target_column |-> "None", feature_columns |-> <<>>,
           ignored_features |-> {}, link |-> "None", data |-> <<>>]

NoCall == [X |-> <<>>, y |-> [kind |-> "none", val |-> 0, seq |-> <<>>],
           shap_ran |-> FALSE, predict_called |-> FALSE, shap_values |-> <<>>,
           labels |-> <<>>, valid_indices |-> <<>>, add_calls |-> <<>>,
           explanations |-> <<>>, error |-> "none"]

\* ShapTabular(training_data, predict_function, mode, ignored_features,
\* **kwargs), lines 49-61.
Construct(mode, hasTarget, ignored_features, kwargs) ==
    /\ phase = "new"
    /\ LET base  == BaseInit(mode, hasTarget)
           check == TargetCheck(base.target_column, ignored_features)
           error == IF base.error # "none" THEN base.error ELSE check
       IN /\ ctor' = [mode |-> mode, hasTarget |-> hasTarget,
                      ignored_features |-> ignored_features,
                      kwargs |-> kwargs, error |-> error]
          /\ IF error # "none"
             THEN /\ phase' = "failed"
                  /\ self' = NoSelf
             ELSE /\ phase' = "ready"
                  /\ \E data \in BackgroundChoices(base.data, kwargs) :
                       self' = [mode |-> base.mode,
                                target_column |-> base.target_column,
                                feature_columns |-> base.feature_columns,
                                ignored_features |-> IgnoredSet(ignored_features),
                                link |-> LinkOf(mode),
                                data |-> data]
    /\ call' = NoCall

\* --------------------------------------------------- ShapTabular.explain

\* ResolveLabels that explains the top predicted class whatever y is.
ResolveLabels_alwaysArgmax(mode, y, instances) ==
    IF mode = "classification"
    THEN [error |-> "none",
          y |-> [i \in 1..Len(instances) |->
                    ArgMax(predict_fn(mode, instances[i]))],
          predict_called |-> TRUE]
    ELSE [error |-> "none", y |-> <<>>, predict_called |-> FALSE]

\* ResolveLabels that checks the length of a label sequence in both modes.
ResolveLabels_checksRegression(mode, y, instances) ==
    IF y.kind = "seq" /\ Len(y.seq) # Len(instances)
    THEN [error |-> "AssertionError", y |-> <<>>, predict_called |-> FALSE]
    ELSE IF mode = "classification"
    THEN [error |-> "none",
          y |-> IF y.kind = "seq" THEN y.seq
                ELSE IF y.kind = "none"
                THEN [i \in 1..Len(instances) |->
                         ArgMax(predict_fn(mode, instances[i]))]
                ELSE [i \in 1..Len(instances) |-> y.val],
          predict_called |-> y.kind = "none"]
    ELSE [error |-> "none", y |-> <<>>, predict_called |-> FALSE]

\* Lines 80-93: the labels to explain.  `y` is [kind, val, seq]: None, a
\* Python int, another scalar (a numpy integer: its type is not int and it
\* has no len), or a sequence.  The result's y is the per-instance label
\* sequence, or <<>> for None (regression).
ResolveLabels(mode, y, instances) ==
    LET n == Len(instances) IN
    IF mode = "classification"
    THEN IF y.kind # "none"
         THEN IF y.kind = "int"
              THEN [error |-> "none", y |-> [i \in 1..n |-> y.val],
                    predict_called |-> FALSE]
              ELSE IF y.kind = "scalar"
              THEN [error |-> "TypeError", y |-> <<>>, predict_called |-> FALSE]
              ELSE IF n # Len(y.seq)
              THEN [error |-> "AssertionError", y |-> <<>>,
                    predict_called |-> FALSE]
              ELSE [error |-> "none", y |-> y.seq, predict_called |-> FALSE]
         ELSE [error |-> "none",
               y |-> [i \in 1..n |-> ArgMax(predict_fn(mode, instances[i]))],
               predict_called |-> TRUE]
    ELSE [error |-> "none", y |-> <<>>, predict_called |-> FALSE]

\* ValidIndices that keeps every feature.
ValidIndices_all(feature_columns, ignored_features) ==
    [k \in 1..Len(feature_columns) |-> k]

\* Lines 95-98: the positions (in feature_columns) of the features kept.
ValidIndices(feature_columns, ignored_features) ==
    IF Cardinality(ignored_features) = 0
    THEN [k \in 1..Len(feature_columns) |-> k]
    ELSE SelectSeq([k \in 1..Len(feature_columns) |-> k],
                   LAMBDA k : feature_columns[k] \notin ignored_features)

\* shap_values[label] on the Python list of per-class arrays: a negative
\* index counts from the end, an index outside the list raises IndexError.
InRange(label) == label \in (-Cardinality(Classes))..(Cardinality(Classes) - 1)

PyIndex(label) == IF label < 0 THEN label + Cardinality(Classes) ELSE label

\* AddArgs that reads row 0 of X in every iteration.
AddArgs_rowZero(mode, feature_columns, X, shap_values, y, valid_indices, i) ==
    LET df             == RemoveTargetColumn(X[1])
        feature_values == [k \in 1..Len(valid_indices) |->
                              df[feature_columns[valid_indices[k]]]]
        feature_names  == [k \in 1..Len(valid_indices) |->
                              feature_columns[valid_indices[k]]]
    IN [instance |-> df,
        target_label |-> IF mode = "classification" THEN <<y[i]>> ELSE <<>>,
        feature_names |-> feature_names,
        feature_values |-> feature_values,
        importance_scores |->
            Take(shap_values[IF mode = "classification" THEN PyIndex(y[i])
                             ELSE 0][i], valid_indices),
        sort |-> TRUE]

\* AddArgs that leaves sort at its default (False).
AddArgs_unsorted(mode, feature_columns, X, shap_values, y, valid_indices, i) ==
    LET df             == RemoveTargetColumn(X[i])
        feature_values == [k \in 1..Len(valid_indices) |->
                              df[feature_columns[valid_indices[k]]]]
        feature_names  == [k \in 1..Len(valid_indices) |->
                              feature_columns[valid_indices[k]]]
    IN [instance |-> df,
        target_label |-> IF mode = "classification" THEN <<y[i]>> ELSE <<>>,
        feature_names |-> feature_names,
        feature_values |-> feature_values,
        importance_scores |->
            Take(shap_values[IF mode = "classification" THEN PyIndex(y[i])
                             ELSE 0][i], valid_indices),
        sort |-> FALSE]

\* Lines 101-123: the arguments explanations.add is called with in
\* iteration i (df is row i of X without its target column).
AddArgs(mode, feature_columns, X, shap_values, y, valid_indices, i) ==
    LET df             == RemoveTargetColumn(X[i])
        feature_values == [k \in 1..Len(valid_indices) |->
                              df[feature_columns[valid_indices[k]]]]
        feature_names  == [k \in 1..Len(valid_indices) |->
                              feature_columns[valid_indices[k]]]
    IN IF mode = "classification"
       THEN LET label             == y[i]
                importance_scores == shap_values[PyIndex(label)][i]
            IN [instance |-> df, target_label |-> <<label>>,
                feature_names |-> feature_names,
                feature_values |-> feature_values,
                importance_scores |-> Take(importance_scores, valid_indices),
                sort |-> TRUE]
       ELSE [instance |-> df, target_label |-> <<>>,
             feature_names |-> feature_names,
             feature_values |-> feature_values,
             importance_scores |-> Take(shap_values[0][i], valid_indices),
             sort |-> TRUE]

\* Lines 100-123: the calls of add made by the loop, in order; the loop
\* stops at the first iteration whose label indexes outside shap_values.
ExplainLoop(mode, feature_columns, X, shap_values, y, valid_indices) ==
    LET n    == Len(X)
        bad  == {i \in 1..n : mode = "classification" /\ ~InRange(y[i])}
        stop == IF bad = {} THEN n + 1
                ELSE CHOOSE i \in bad : \A j \in bad : i <= j
    IN [error |-> IF stop <= n THEN "IndexError" ELSE "none",
        add_calls |-> [i \in 1..(stop - 1) |->
            AddArgs(mode, feature_columns, X, shap_values, y, valid_indices, i)]]

\* The values explain is called with.
SeqsOfLen(S, n) == [1..n -> S]

WithTarget(row) ==
    [c \in DOMAIN row \cup {TargetName} |-> IF c = TargetName THEN 1 ELSE row[c]]

\* X carries the target column only when the training data had one.
Batches(target_column) ==
    UNION {SeqsOfLen(Pool, n) : n \in 1..MaxBatch}
    \cup IF target_column = "None" THEN {}
         ELSE UNION {SeqsOfLen({WithTarget(r) : r \in Pool}, n) :
                        n \in 1..MaxBatch}

LabelArgs(n) ==
    {[kind |-> "none", val |-> 0, seq |-> <<>>]}
    \cup {[kind |-> "int", val |-> v, seq |-> <<>>] : v \in {-1, 0, 1, 2}}
    \cup {[kind |-> "scalar", val |-> v, seq |-> <<>>] : v \in {1}}
    \cup {[kind |-> "seq", val |-> 0, seq |-> q] :
            q \in SeqsOfLen(Classes, n)
                  \cup {[k \in 1..m |-> 0] : m \in {n - 1, n + 1}}}

\* explain(X, y), lines 75-124.
Explain(X, y) ==
    /\ phase = "ready"
    /\ LET Xt        == [i \in 1..Len(X) |-> RemoveTargetColumn(X[i])]
           instances == [i \in 1..Len(X) |-> Transform(Xt[i])]
       IN \E shap_values \in
              ShapValues(self.mode, self.link, self.data, instances) :
          LET res   == ResolveLabels(self.mode, y, instances)
              valid == ValidIndices(self.feature_columns, self.ignored_features)
              loop  == ExplainLoop(self.mode, self.feature_columns, Xt,
                                   shap_values, res.y, valid)
          IN call' =
               IF res.error # "none"
               THEN [X |-> X, y |-> y, shap_ran |-> TRUE,
                     predict_called |-> res.predict_called,
                     shap_values |-> shap_values, labels |-> <<>>,
                     valid_indices |-> <<>>, add_calls |-> <<>>,
                     explanations |-> <<>>, error |-> res.error]
               ELSE [X |-> X, y |-> y, shap_ran |-> TRUE,
                     predict_called |-> res.predict_called,
                     shap_values |-> shap_values, labels |-> res.y,
                     valid_indices |-> valid, add_calls |-> loop.add_calls,
                     explanations |->
                         IF loop.error # "none" THEN <<>>
                         ELSE [i \in 1..Len(loop.add_calls) |->
                                  AddRecord(self.mode, loop.add_calls[i])],
                     error |-> loop.error]
    /\ phase' = "called"
    /\ UNCHANGED <<ctor, self>>

\* The caller takes the returned explanations (or the raised error); the
\* explainer is unchanged and can be called again.
Return ==
    /\ phase = "called"
    /\ phase' = "ready"
    /\ call' = NoCall
    /\ UNCHANGED <<ctor, self>>

NoCtor == [mode |-> "None", hasTarget |-> FALSE,
           ignored_features |-> [isNone |-> TRUE, names |-> {}],
           kwargs |-> [has_nsamples |-> FALSE, nsamples |-> 0],
           error |-> "none"]

Init ==
    /\ phase = "new"
    /\ ctor = NoCtor
    /\ self = NoSelf
    /\ call = NoCall

Next ==
    \/ \E mode \in ModeArgs, hasTarget \in BOOLEAN,
          ignored_features \in IgnoredArgs, kwargs \in KwargsArgs :
          Construct(mode, hasTarget, ignored_features, kwargs)
    \/ \E X \in Batches(self.target_column) : \E y \in LabelArgs(Len(X)) : Explain(X, y)
    \/ Return

Spec == Init /\ [][Next]_vars

\* ------------------------------------------------------------ properties

\* An explain call has returned its explanations.
Explained == phase = "called" /\ call.error = "none"

\* Row i of the call, as the explainer sees it, and its predictions.
InstanceOf(i) == Transform(RemoveTargetColumn(call.X[i]))

PredictionOf(i) == predict_fn(self.mode, InstanceOf(i))

\* The positions of the feature columns that are not ignored, ascending.
KeptPositions ==
    {k \in 1..Len(self.feature_columns) :
        self.feature_columns[k] \notin self.ignored_features}

KthKept(k) ==
    CHOOSE p \in KeptPositions : Cardinality({q \in KeptPositions : q < p}) = k - 1

\* The score a record holds for feature column f.
RecordScore(rec, f) ==
    rec.scores[CHOOSE k \in 1..Len(rec.features) : rec.features[k] = f]

\* Record rec holds, for every kept feature, the score of `vector` at that
\* feature's position, and holds nothing else.
HoldsScoresOf(rec, vector) ==
    /\ Len(rec.features) = Cardinality(KeptPositions)
    /\ \A p \in KeptPositions :
          /\ \E k \in 1..Len(rec.features) :
                rec.features[k] = self.feature_columns[p]
          /\ RecordScore(rec, self.feature_columns[p]) = vector[p]

ColumnPosition(f) == CHOOSE k \in FeatureIdx : FeatureColumns[k] = f

\* C1: in classification mode with explicit labels, record i's target label
\* is the requested one (the single value, or labels[i]), and with a label
\* sequence record i's scores are those of class labels[i] for instance i.
C1_ExplicitLabels ==
    (Explained /\ self.mode = "classification" /\ call.y.kind \in {"int", "seq"})
    => /\ Len(call.explanations) = Len(call.X)
       /\ call.y.kind = "seq" => Len(call.y.seq) = Len(call.X)
       /\ \A i \in 1..Len(call.X) :
             /\ call.y.kind = "int"
                   => call.explanations[i].target_label = <<call.y.val>>
             /\ call.y.kind = "seq"
                   => /\ call.explanations[i].target_label = <<call.y.seq[i]>>
                      /\ HoldsScoresOf(call.explanations[i],
                                       call.shap_values[call.y.seq[i]][i])

C1_Witness ==
    /\ Explained
    /\ self.mode = "classification"
    /\ call.y.kind = "seq"
    /\ Len(call.X) = 2
    /\ call.y.seq[1] # call.y.seq[2]
    /\ \E i \in 1..2 : call.y.seq[i] # ArgMax(PredictionOf(i))
    /\ call.shap_values[0][1] # call.shap_values[1][1]

\* C2: in classification mode without labels, record i's target label is
\* the class of maximal predicted score for instance i, the lowest such
\* class on a tie, and the record's scores are those of that class.
C2_ArgmaxLabels ==
    (Explained /\ self.mode = "classification" /\ call.y.kind = "none")
    => /\ Len(call.explanations) = Len(call.X)
       /\ \A i \in 1..Len(call.X) :
             \E c \in Classes :
                /\ \A d \in Classes : PredictionOf(i)[d] <= PredictionOf(i)[c]
                /\ \A d \in Classes :
                      PredictionOf(i)[d] = PredictionOf(i)[c] => c <= d
                /\ call.explanations[i].target_label = <<c>>
                /\ HoldsScoresOf(call.explanations[i], call.shap_values[c][i])

C2_Witness ==
    /\ Explained
    /\ self.mode = "classification"
    /\ call.y.kind = "none"
    /\ Len(call.X) = 2
    /\ PredictionOf(1)[0] = PredictionOf(1)[1]
    /\ call.explanations[1].target_label = <<0>>
    /\ PredictionOf(2)[0] < PredictionOf(2)[1]
    /\ call.explanations[2].target_label = <<1>>

\* C3: in classification mode, a label sequence whose length differs from
\* the number of instances fails the call before any work: the attribution
\* engine has not run, the prediction function has not been evaluated and
\* no record has been appended.
C3_NoPartialWork ==
    (/\ phase = "called"
     /\ self.mode = "classification"
     /\ call.y.kind = "seq"
     /\ Len(call.y.seq) # Len(call.X))
    => /\ call.error = "AssertionError"
       /\ ~call.shap_ran
       /\ ~call.predict_called
       /\ call.add_calls = <<>>

\* C4: construction with the target column among the ignored features
\* fails at construction, so no explainer ignores its target column and no
\* explain call meets one.
C4_TargetNeverIgnored ==
    /\ (/\ phase # "new"
        /\ ctor.hasTarget
        /\ ~ctor.ignored_features.isNone
        /\ TargetName \in ctor.ignored_features.names)
       => (phase = "failed" /\ ctor.error = "AssertionError")
    /\ phase \in {"ready", "called"}
       => self.target_column \notin self.ignored_features

C4_Witness ==
    /\ phase = "failed"
    /\ ctor.mode \in SupportedModes
    /\ ctor.hasTarget
    /\ TargetName \in ctor.ignored_features.names
    /\ ctor.error = "AssertionError"

\* The class whose scores record i explains: the resolved label, as the
\* Python list of per-class arrays indexes it, or the regression output.
TargetOf(i) ==
    IF self.mode = "classification" THEN PyIndex(call.labels[i]) ELSE 0

\* C5: no ignored feature appears in any record; the names, values and
\* scores handed to a record are those of the kept feature columns, in
\* column order, the k-th of each belonging to the k-th kept column.
C5_Filtering ==
    phase = "called"
    => /\ \A i \in 1..Len(call.add_calls) :
             LET a == call.add_calls[i] IN
             /\ Len(a.feature_names) = Cardinality(KeptPositions)
             /\ Len(a.feature_values) = Cardinality(KeptPositions)
             /\ Len(a.importance_scores) = Cardinality(KeptPositions)
             /\ \A k \in 1..Cardinality(KeptPositions) :
                   /\ a.feature_names[k] = self.feature_columns[KthKept(k)]
                   /\ a.feature_values[k]
                         = call.X[i][self.feature_columns[KthKept(k)]]
                   /\ a.importance_scores[k]
                         = call.shap_values[TargetOf(i)][i][KthKept(k)]
       /\ \A i \in 1..Len(call.explanations) :
             {call.explanations[i].features[k] :
                 k \in 1..Len(call.explanations[i].features)}
                = {self.feature_columns[p] : p \in KeptPositions}

C5_Witness ==
    /\ Explained
    /\ self.ignored_features = {"f1"}
    /\ Len(call.X) = 2
    /\ call.add_calls[2].feature_names = <<"f0", "f2">>
    /\ call.add_calls[2].importance_scores[1] # 0

\* C6: in regression mode explain ignores labels: whatever labels is, the
\* call does not fail, every record's target label is absent, and the
\* records are those of the same call without labels.
C6_RegressionIgnoresLabels ==
    (phase = "called" /\ self.mode = "regression")
    => /\ call.error = "none"
       /\ Len(call.explanations) = Len(call.X)
       /\ \A i \in 1..Len(call.X) :
             /\ call.explanations[i].target_label = <<>>
             /\ call.explanations[i]
                   = AddRecord("regression",
                        AddArgs("regression", self.feature_columns, call.X,
                                call.shap_values, <<>>,
                                ValidIndices(self.feature_columns,
                                             self.ignored_features), i))

C6_Witness ==
    /\ Explained
    /\ self.mode = "regression"
    /\ call.y.kind = "seq"
    /\ Len(call.y.seq) # Len(call.X)
    /\ Len(call.explanations) = 2

\* The scores the record of instance i drops: those of the ignored columns.
DroppedSum(i) ==
    SumSeq([p \in 1..Len(self.feature_columns) |->
              IF p \in KeptPositions THEN 0
              ELSE call.shap_values[TargetOf(i)][i][p]])

ResolvedLabel(i) ==
    IF call.y.kind = "none"
    THEN CHOOSE c \in Classes :
            /\ \A d \in Classes : PredictionOf(i)[d] <= PredictionOf(i)[c]
            /\ \A d \in Classes :
                  PredictionOf(i)[d] = PredictionOf(i)[c] => c <= d
    ELSE IF call.y.kind = "seq" THEN call.y.seq[i] ELSE call.y.val

\* C8: a successful call on n instances returns n records in input order:
\* record i holds the snapshot of instance i, the label resolved for
\* instance i and the scores computed for instance i.
C8_OrderPreserved ==
    Explained
    => /\ Len(call.explanations) = Len(call.X)
       /\ \A i \in 1..Len(call.X) :
             LET rec == call.explanations[i] IN
             /\ rec.instance = RemoveTargetColumn(call.X[i])
             /\ \A k \in 1..Len(rec.features) :
                   rec.values[k] = call.X[i][rec.features[k]]
             /\ rec.target_label
                   = IF self.mode = "classification" THEN <<ResolvedLabel(i)>>
                     ELSE <<>>
             /\ HoldsScoresOf(rec,
                   call.shap_values[IF self.mode = "classification"
                                    THEN PyIndex(ResolvedLabel(i)) ELSE 0][i])

C8_Witness ==
    /\ Explained
    /\ Len(call.X) = 2
    /\ call.X[1] # call.X[2]
    /\ call.explanations[1].instance # call.explanations[2].instance
    /\ call.explanations[1].scores # call.explanations[2].scores

\* C9: every record is added with sort=true, and in every record the
\* triples are in non-increasing absolute score, triples of equal absolute
\* score staying in feature-column order.
C9_SortedRecords ==
    phase = "called"
    => /\ \A i \in 1..Len(call.add_calls) : call.add_calls[i].sort
       /\ \A i \in 1..Len(call.explanations) :
             LET rec == call.explanations[i] IN
             \A k, l \in 1..Len(rec.scores) :
                k < l
                => /\ Abs(rec.scores[k]) >= Abs(rec.scores[l])
                   /\ Abs(rec.scores[k]) = Abs(rec.scores[l])
                         => ColumnPosition(rec.features[k])
                               < ColumnPosition(rec.features[l])

C9_Witness ==
    /\ Explained
    /\ self.ignored_features = {}
    /\ Len(call.explanations) >= 1
    /\ call.add_calls[1].importance_scores = <<3, -3, 14>>
    /\ call.explanations[1].scores = <<14, 3, -3>>
    /\ call.explanations[1].features = <<"f2", "f0", "f1">>

\* C10: construction with ignored_features omitted behaves as construction
\* with an empty list: it succeeds, whether or not the training data has a
\* target column, and the explainer ignores nothing.
C10_OmittedIsEmpty ==
    (/\ phase # "new"
     /\ ctor.mode \in SupportedModes
     /\ IgnoredSet(ctor.ignored_features) = {})
    => /\ ctor.error = "none"
       /\ phase \in {"ready", "called"}
       /\ self.ignored_features = {}
       /\ ValidIndices(self.feature_columns, self.ignored_features)
             = [k \in FeatureIdx |-> k]

====
